---------------------------- MODULE Spec2Model ----------------------------
(***************************************************************************)
(* MiJIT: a runtime code generator.  main() builds an architecture         *)
(* specific machine-code template, patches the message length into it,     *)
(* appends the message, maps a page-aligned region, copies the code in,    *)
(* makes the region executable, calls it and unmaps it.                    *)
(*                                                                         *)
(* Spec      models main() of src/main.cpp (four architecture profiles).   *)
(* SpecRaii  models main() of src/unnamed/part_001 (x86-64 only, the       *)
(*           region is owned by a unique_ptr with an munmap deleter).      *)
(* SpecEst   models estimate_memory_size alone, on every vector size.      *)
(***************************************************************************)
EXTENDS Integers, Sequences, FiniteSets, TLC

VARIABLES
    arch,                 \* architecture profile selected by the #if chain
    name,                 \* the line read from standard input
    hello_name,           \* "Hello, " + name + "!\n"
    message_len,          \* message_size, the local of append_message_size
    machine_code,         \* std::vector<uint8_t> machine_code
    pc,                   \* position of main()
    page_size,            \* sysconf(_SC_PAGE_SIZE) of the host
    machine_code_size,    \* argument of estimate_memory_size
    factor,               \* loop variable of estimate_memory_size
    required_memory_size, \* result of estimate_memory_size
    memory,               \* pointer returned by mmap
    region,               \* lifecycle state of the mapping
    prot,                 \* protection bits of the mapping
    mem,                  \* contents of the mapping
    exception,            \* what() of the exception in flight
    cout,                 \* what the host wrote to std::cout
    cerr,                 \* what the host wrote to std::cerr
    fd1,                  \* bytes the generated routine wrote to descriptor 1
    syscalls,             \* system calls issued by the generated routine
    exit_code,            \* <<>> while running, <<code>> once main returned
    calls,                \* the lifecycle primitives called so far, with arguments
    region_log,           \* the sequence of states the region went through
    mprotect_ret,         \* result of mprotect, <<>> before the call
    invoke_status,        \* outcome of calling the routine
    stale_access          \* TRUE once the region was used after munmap

vars == <<arch, name, hello_name, message_len, machine_code, pc, page_size,
          machine_code_size, factor, required_memory_size, memory, region,
          prot, mem, exception, cout, cerr, fd1, syscalls, exit_code, calls,
          region_log, mprotect_ret, invoke_status, stale_access>>

-----------------------------------------------------------------------------
(* Bounds of the model *)

\* width of size_t in the model (64 on the supported hosts)
WordBits == 10
\* longest name typed by the user
MaxNameLen == 247
\* smallest host page size is 2^MinPageBits
MinPageBits == 2
\* number of base addresses the kernel may choose from
MaxBases == 2

WordModulus == 2 ^ WordBits
\* std::vector<uint8_t>::max_size() is PTRDIFF_MAX
MaxVectorSize == 2 ^ (WordBits - 1) - 1
\* sysconf returns a long: the page size is a power of two below 2^(w-1)
PageSizes == {2 ^ k : k \in MinPageBits .. (WordBits - 2)}
\* page sizes of the hosts main() is run on
HostPageSizes == {2 ^ MinPageBits, 2 ^ (MinPageBits + 2), 2 ^ (WordBits - 2)}

-----------------------------------------------------------------------------
(* Program constants *)

EXIT_SUCCESS == 0
EXIT_FAILURE == 1
MAP_FAILED == -1
STDOUT_FILENO == 1

Archs == {"X86_64_LINUX", "X86_64_MACOS", "ARM64_LINUX", "ARM64_MACOS"}
X86Archs == {"X86_64_LINUX", "X86_64_MACOS"}

AllocationErrorMsg ==
    <<"Failed", "to", "allocate", "memory", "for", "machine", "code">>
ProtectionErrorMsg == <<"Failed", "to", "make", "memory", "executable">>
RaiiAllocationErrorMsg == <<"Failed", "to", "allocate", "executable", "memory">>

\* "Hello, " and "!\n" as bytes
HelloPrefix == <<72, 101, 108, 108, 111, 44, 32>>
HelloSuffix == <<33, 10>>

Ada == <<65, 100, 97>>
World == <<87, 111, 114, 108, 100>>
Filler(n) == [i \in 1 .. n |-> 97 + (i % 26)]
Names == {Ada, World} \cup {Filler(n) : n \in {0, 1, MaxNameLen - 1, MaxNameLen}}

\* std::string{"Hello, "} + name + "!\n"
MakeHelloName(n) == HelloPrefix \o n \o HelloSuffix

-----------------------------------------------------------------------------
(* The machine-code templates *)

\* TemplateX86Linux with the displacement of lea one byte short
TemplateX86Linux_Lea9 ==
    << 72, 199, 192, 1, 0, 0, 0,
       72, 199, 199, 1, 0, 0, 0,
       72, 141, 53, 9, 0, 0, 0,
       72, 199, 194, 0, 0, 0, 0,
       15, 5,
       195 >>

TemplateX86Linux ==
    << 72, 199, 192, 1, 0, 0, 0,      \* mov rax, 1
       72, 199, 199, 1, 0, 0, 0,      \* mov rdi, 1
       72, 141, 53, 10, 0, 0, 0,      \* lea rsi, [rip+10]
       72, 199, 194, 0, 0, 0, 0,      \* mov rdx, 0
       15, 5,                         \* syscall
       195 >>                         \* ret

TemplateX86Macos ==
    << 72, 199, 192, 4, 0, 0, 2,      \* mov rax, 0x02000004
       72, 199, 199, 1, 0, 0, 0,      \* mov rdi, 1
       72, 141, 53, 10, 0, 0, 0,      \* lea rsi, [rip+10]
       72, 199, 194, 0, 0, 0, 0,      \* mov rdx, 0
       15, 5,                         \* syscall
       195 >>                         \* ret

TemplateArm64Linux ==
    << 32, 0, 128, 210,               \* mov x0, #1
       65, 0, 0, 16,                  \* adr x1, #8
       66, 0, 128, 210,               \* mov x2, #2
       8, 8, 128, 210,                \* mov x8, #64
       1, 0, 0, 212,                  \* svc #0
       192, 3, 95, 214 >>             \* ret

TemplateArm64Macos ==
    << 0, 0, 128, 210,                \* mov x0, #0
       192, 3, 95, 214 >>             \* ret

Template(a) ==
    CASE a = "X86_64_LINUX" -> TemplateX86Linux
      [] a = "X86_64_MACOS" -> TemplateX86Macos
      [] a = "ARM64_LINUX"  -> TemplateArm64Linux
      [] a = "ARM64_MACOS"  -> TemplateArm64Macos

\* the template of part_001: #ifdef __linux__ / #elif __APPLE__, x86-64 only
RaiiTemplate(a) ==
    IF a = "X86_64_LINUX" THEN TemplateX86Linux ELSE TemplateX86Macos

-----------------------------------------------------------------------------
(* append_message_size: patch the message length into the template *)

\* (v & (0xFF << 8k)) >> 8k
ByteOf(v, k) == (v \div (256 ^ k)) % 256

\* machine_code[i] = b with a zero-based index i
SetByte(code, i, b) == [code EXCEPT ![i + 1] = b]

\* PatchX86 storing the most significant byte first
PatchX86_BigEndian(code, message_size) ==
    SetByte(SetByte(SetByte(SetByte(code,
        24, ByteOf(message_size, 3)),
        25, ByteOf(message_size, 2)),
        26, ByteOf(message_size, 1)),
        27, ByteOf(message_size, 0))

\* PatchX86 without the right shifts: the masked value is cut to a byte
PatchX86_NoShift(code, message_size) ==
    SetByte(SetByte(SetByte(SetByte(code,
        24, ByteOf(message_size, 0)),
        25, 0),
        26, 0),
        27, 0)

PatchX86(code, message_size) ==
    SetByte(SetByte(SetByte(SetByte(code,
        24, ByteOf(message_size, 0)),
        25, ByteOf(message_size, 1)),
        26, ByteOf(message_size, 2)),
        27, ByteOf(message_size, 3))

\* PatchArm64Linux without the shift by 5
PatchArm64Linux_NoShift(code, message_size) ==
    LET encoded_size == message_size % 65536
    IN  SetByte(SetByte(code,
            8, ByteOf(encoded_size, 0)),
            9, ByteOf(encoded_size, 1))

\* PatchArm64Linux storing the third byte of the shifted value as well
PatchArm64Linux_ThreeBytes(code, message_size) ==
    LET encoded_size == (message_size % 65536) * 32
    IN  SetByte(SetByte(SetByte(code,
            8, ByteOf(encoded_size, 0)),
            9, ByteOf(encoded_size, 1)),
            10, 128 + ByteOf(encoded_size, 2))

PatchArm64Linux(code, message_size) ==
    LET encoded_size == (message_size % 65536) * 32
    IN  SetByte(SetByte(code,
            8, ByteOf(encoded_size, 0)),
            9, ByteOf(encoded_size, 1))

\* the #if chain of append_message_size for a message of message_size bytes
PatchForSize(code, message_size, a) ==
    CASE a \in X86Archs     -> PatchX86(code, message_size)
      [] a = "ARM64_LINUX"  -> PatchArm64Linux(code, message_size)
      [] a = "ARM64_MACOS"  -> code

append_message_size(code, msg, a) == PatchForSize(code, Len(msg), a)

\* AppendPayload whose loop stops one character early
AppendPayload_DropsLast(code, msg, a) ==
    IF a = "ARM64_MACOS" THEN code
    ELSE code \o SubSeq(msg, 1, Len(msg) - 1)

\* AppendPayload without the exception for Apple Silicon
AppendPayload_Always(code, msg, a) == code \o msg

\* the loop that pushes every character of hello_name onto machine_code
AppendPayload(code, msg, a) ==
    IF a = "ARM64_MACOS" THEN code ELSE code \o msg

-----------------------------------------------------------------------------
(* The processor and the kernel: what calling the region does *)

InRegion(m, base, a) == a >= base /\ a < base + Len(m)
ByteAt(m, base, a) == m[a - base + 1]

\* a sign-extended little-endian 32-bit immediate at address a
Imm32(m, base, a) ==
    LET b3 == ByteAt(m, base, a + 3)
    IN  ByteAt(m, base, a) + 256 * ByteAt(m, base, a + 1)
        + 65536 * ByteAt(m, base, a + 2)
        + 16777216 * (IF b3 >= 128 THEN b3 - 256 ELSE b3)

\* number of the write primitive in the platform's convention
WriteSyscallNumber(a) ==
    CASE a = "X86_64_LINUX" -> 1
      [] a = "X86_64_MACOS" -> 33554436
      [] a = "ARM64_LINUX"  -> 64
      [] a = "ARM64_MACOS"  -> 33554436

\* the kernel's write(fd, addr, count), called with number nr: the request is
\* logged; bytes reach descriptor 1 when the source range lies in the region
KernelSyscall(m, base, a, nr, fd, addr, count, io) ==
    LET req == [nr |-> nr, fd |-> fd, addr |-> addr, count |-> count]
        ok  == /\ nr = WriteSyscallNumber(a)
               /\ count >= 0
               /\ InRegion(m, base, addr)
               /\ addr + count <= base + Len(m)
    IN  [ret |-> IF ok THEN count ELSE -1,
         io  |-> [fd1 |-> IF ok /\ fd = STDOUT_FILENO
                          THEN io.fd1 \o SubSeq(m, addr - base + 1,
                                                addr - base + count)
                          ELSE io.fd1,
                  syscalls |-> Append(io.syscalls, req)]]

Fault(regs, io) == [status |-> "fault", regs |-> regs, io |-> io]
Returned(regs, io) == [status |-> "returned", regs |-> regs, io |-> io]

\* x86-64: registers are numbered rax=0, rdx=2, rsi=6, rdi=7
RECURSIVE RunX86(_, _, _, _, _, _)
RunX86(m, base, a, ip, regs, io) ==
    IF ~InRegion(m, base, ip) THEN Fault(regs, io)
    ELSE LET b0 == ByteAt(m, base, ip) IN
    IF b0 = 195 THEN Returned(regs, io)
    ELSE IF ~InRegion(m, base, ip + 1) THEN Fault(regs, io)
    ELSE LET b1 == ByteAt(m, base, ip + 1) IN
    IF b0 = 15 /\ b1 = 5
    THEN LET r == KernelSyscall(m, base, a, regs[0], regs[7], regs[6],
                                regs[2], io)
         IN  RunX86(m, base, a, ip + 2, [regs EXCEPT ![0] = r.ret], r.io)
    ELSE IF ~InRegion(m, base, ip + 6) THEN Fault(regs, io)
    ELSE LET modrm == ByteAt(m, base, ip + 2) IN
    IF b0 = 72 /\ b1 = 199 /\ modrm >= 192 /\ modrm <= 199
    THEN RunX86(m, base, a, ip + 7,
                [regs EXCEPT ![modrm - 192] = Imm32(m, base, ip + 3)], io)
    ELSE IF b0 = 72 /\ b1 = 141 /\ modrm < 64 /\ modrm % 8 = 5
    THEN RunX86(m, base, a, ip + 7,
                [regs EXCEPT ![modrm \div 8] = ip + 7 + Imm32(m, base, ip + 3)],
                io)
    ELSE Fault(regs, io)

\* ARM64: a 21-bit signed immediate of adr, from immhi (19 bits) and immlo
AdrImm(b0, b1, b2, b3) ==
    LET immhi == (b2 * 65536 + b1 * 256 + b0) \div 32
        immlo == (b3 \div 32) % 4
        imm   == immhi * 4 + immlo
    IN  IF imm >= 1048576 THEN imm - 2097152 ELSE imm

RECURSIVE RunArm64(_, _, _, _, _, _)
RunArm64(m, base, a, ip, regs, io) ==
    IF ~(InRegion(m, base, ip) /\ InRegion(m, base, ip + 3))
    THEN Fault(regs, io)
    ELSE LET b0 == ByteAt(m, base, ip)
             b1 == ByteAt(m, base, ip + 1)
             b2 == ByteAt(m, base, ip + 2)
             b3 == ByteAt(m, base, ip + 3)
             rd == b0 % 32
         IN
    IF <<b0, b1, b2, b3>> = <<192, 3, 95, 214>> THEN Returned(regs, io)
    ELSE IF <<b0, b1, b2, b3>> = <<1, 0, 0, 212>>
    THEN LET r == KernelSyscall(m, base, a, regs[8], regs[0], regs[1],
                                regs[2], io)
         IN  RunArm64(m, base, a, ip + 4, [regs EXCEPT ![0] = r.ret], r.io)
    ELSE IF b3 = 210 /\ b2 >= 128 /\ b2 < 160
    THEN RunArm64(m, base, a, ip + 4,
                  [regs EXCEPT ![rd] = (b2 % 32) * 2048 + b1 * 8 + b0 \div 32],
                  io)
    ELSE IF b3 < 128 /\ b3 % 32 = 16
    THEN RunArm64(m, base, a, ip + 4,
                  [regs EXCEPT ![rd] = ip + AdrImm(b0, b1, b2, b3)], io)
    ELSE Fault(regs, io)

\* values a register may hold on entry (whatever the caller left in it)
CallerGarbage == {0, 7}

EmptyIo == [fd1 |-> <<>>, syscalls |-> <<>>]

\* func(): run the bytes of the region from its base address
CallRegion(m, base, a, garbage) ==
    IF a \in X86Archs
    THEN RunX86(m, base, a, base, [r \in 0 .. 7 |-> garbage], EmptyIo)
    ELSE RunArm64(m, base, a, base, [r \in 0 .. 31 |-> garbage], EmptyIo)

\* the register the calling convention returns an int in
ResultRegister(a) == 0

-----------------------------------------------------------------------------
(* main() of src/main.cpp *)

InitCommon ==
    /\ name = <<>>
    /\ hello_name = <<>>
    /\ machine_code = <<>>
    /\ machine_code_size = 0
    /\ factor = 1
    /\ required_memory_size = 0
    /\ memory = 0
    /\ region = "Unallocated"
    /\ prot = {}
    /\ mem = <<>>
    /\ exception = <<>>
    /\ cout = <<>>
    /\ cerr = <<>>
    /\ fd1 = <<>>
    /\ syscalls = <<>>
    /\ exit_code = <<>>
    /\ calls = <<>>
    /\ region_log = <<"Unallocated">>
    /\ mprotect_ret = <<>>
    /\ invoke_status = [status |-> "none", result |-> 0]
    /\ stale_access = FALSE

Init ==
    /\ pc = "start"
    /\ arch \in Archs
    /\ page_size \in HostPageSizes
    /\ message_len = 0
    /\ InitCommon

Line(kind, data) == [kind |-> kind, data |-> data]

\* the variables of the region and of the routine's effects
regionVars == <<memory, region, prot, mem, calls, region_log, mprotect_ret,
                stale_access>>
routineVars == <<fd1, syscalls, invoke_status>>
estimateVars == <<machine_code_size, factor, required_memory_size>>
hostVars == <<arch, page_size>>

\* std::getline(std::cin, name) and the greeting built from it
GetName ==
    /\ pc = "start"
    /\ \E n \in Names :
        /\ name' = n
        /\ hello_name' = MakeHelloName(n)
    /\ cout' = Append(cout, Line("prompt", <<>>))
    /\ pc' = "template"
    /\ UNCHANGED <<message_len, machine_code, exception, cerr, exit_code>>
    /\ UNCHANGED <<hostVars, estimateVars, regionVars, routineVars>>

\* the platform banner and the initialisation of machine_code
BuildTemplate ==
    /\ pc = "template"
    /\ cout' = Append(cout, Line("platform", <<arch>>))
    /\ machine_code' = Template(arch)
    /\ pc' = "patch"
    /\ UNCHANGED <<name, hello_name, message_len, exception, cerr, exit_code>>
    /\ UNCHANGED <<hostVars, estimateVars, regionVars, routineVars>>

\* append_message_size(machine_code, hello_name)
PatchLength ==
    /\ pc = "patch"
    /\ message_len' = Len(hello_name)
    /\ machine_code' = append_message_size(machine_code, hello_name, arch)
    /\ pc' = "payload"
    /\ UNCHANGED <<name, hello_name, exception, cout, cerr, exit_code>>
    /\ UNCHANGED <<hostVars, estimateVars, regionVars, routineVars>>

\* the push_back loop over hello_name
PushPayload ==
    /\ pc = "payload"
    /\ machine_code' = AppendPayload(machine_code, hello_name, arch)
    /\ pc' = "show"
    /\ UNCHANGED <<name, hello_name, message_len, exception, cout, cerr,
                   exit_code>>
    /\ UNCHANGED <<hostVars, estimateVars, regionVars, routineVars>>

\* show_machine_code(machine_code): the hex dump of every byte
ShowMachineCode ==
    /\ pc = "show"
    /\ cout' = Append(cout, Line("dump", machine_code))
    /\ pc' = "size"
    /\ UNCHANGED <<name, hello_name, message_len, machine_code, exception,
                   cerr, exit_code>>
    /\ UNCHANGED <<hostVars, estimateVars, regionVars, routineVars>>

-----------------------------------------------------------------------------
(* estimate_memory_size *)

\* factor * page_size_multiple in size_t
EstimateProduct(f, p) == (f * p) % WordModulus

\* EstimateFits with a strict comparison
EstimateFits_Strict(n, r) == n < r

\* machine_code_size <= required_memory_size
EstimateFits(n, r) == n <= r

\* CallEstimate sizing the region for the message instead of the buffer
CallEstimate_MessageOnly ==
    /\ pc = "size"
    /\ machine_code_size' = Len(hello_name)
    /\ factor' = 1
    /\ pc' = "estimate"
    /\ UNCHANGED <<name, hello_name, message_len, machine_code, exception,
                   cout, cerr, exit_code, required_memory_size>>
    /\ UNCHANGED <<hostVars, regionVars, routineVars>>

\* the call estimate_memory_size(machine_code.size())
CallEstimate ==
    /\ pc = "size"
    /\ machine_code_size' = Len(machine_code)
    /\ factor' = 1
    /\ pc' = "estimate"
    /\ UNCHANGED <<name, hello_name, message_len, machine_code, exception,
                   cout, cerr,
                   exit_code, required_memory_size>>
    /\ UNCHANGED <<hostVars, regionVars, routineVars>>

\* one iteration of while (true) that does not return: ++factor
EstimateLoop ==
    /\ pc = "estimate"
    /\ ~EstimateFits(machine_code_size, EstimateProduct(factor, page_size))
    /\ factor' = (factor + 1) % WordModulus
    /\ UNCHANGED <<name, hello_name, message_len, machine_code, exception,
                   cout, cerr,
                   exit_code, pc, machine_code_size, required_memory_size>>
    /\ UNCHANGED <<hostVars, regionVars, routineVars>>

\* the iteration that returns required_memory_size
EstimateReturn ==
    /\ pc = "estimate"
    /\ EstimateFits(machine_code_size, EstimateProduct(factor, page_size))
    /\ required_memory_size' = EstimateProduct(factor, page_size)
    /\ pc' = "mmap"
    /\ UNCHANGED <<name, hello_name, message_len, machine_code, exception,
                   cout, cerr,
                   exit_code, machine_code_size, factor>>
    /\ UNCHANGED <<hostVars, regionVars, routineVars>>

-----------------------------------------------------------------------------
(* The lifecycle of the region in main() of src/main.cpp *)

buildVars == <<name, hello_name, message_len, machine_code>>

Call(op, addr, size) == [op |-> op, addr |-> addr, size |-> size]
Count(op) == Cardinality({i \in DOMAIN calls : calls[i].op = op})

Mapped == region \notin {"Unallocated", "Released"}

\* the region enters state s
Enter(s) ==
    /\ region' = s
    /\ region_log' = Append(region_log, s)

\* Unmap given the length of the buffer instead of the length of the mapping
Unmap_CodeSize ==
    /\ calls' = Append(calls, Call("munmap", memory, Len(machine_code)))
    /\ stale_access' = (stale_access \/ region = "Released")
    /\ IF Mapped
       THEN Enter("Released") /\ prot' = {} /\ mem' = <<>>
       ELSE UNCHANGED <<region, region_log, prot, mem>>

\* munmap(memory, required_memory_size)
Unmap ==
    /\ calls' = Append(calls, Call("munmap", memory, required_memory_size))
    /\ stale_access' = (stale_access \/ region = "Released")
    /\ IF Mapped
       THEN Enter("Released") /\ prot' = {} /\ mem' = <<>>
       ELSE UNCHANGED <<region, region_log, prot, mem>>

\* StdCopy that stops one byte before last
StdCopy_DropsLast(src, m) ==
    [i \in 1 .. Len(m) |-> IF i < Len(src) THEN src[i] ELSE m[i]]

\* std::copy(first, last, d_first) into a region with contents m
StdCopy(src, m) == [i \in 1 .. Len(m) |-> IF i <= Len(src) THEN src[i] ELSE m[i]]

\* mmap succeeds: a zero-filled PROT_READ | PROT_WRITE mapping
MmapOk ==
    /\ pc = "mmap"
    /\ required_memory_size > 0
    /\ \E b \in 1 .. MaxBases :
        /\ memory' = b * page_size
        /\ calls' = Append(calls, Call("mmap", b * page_size,
                                       required_memory_size))
    /\ Enter("ReadWrite")
    /\ prot' = {"R", "W"}
    /\ mem' = [i \in 1 .. required_memory_size |-> 0]
    /\ pc' = "check"
    /\ UNCHANGED <<buildVars, hostVars, estimateVars, routineVars>>
    /\ UNCHANGED <<exception, cout, cerr, exit_code, mprotect_ret, stale_access>>

\* mmap returns MAP_FAILED
MmapFail ==
    /\ pc = "mmap"
    /\ memory' = MAP_FAILED
    /\ calls' = Append(calls, Call("mmap", MAP_FAILED, required_memory_size))
    /\ pc' = "check"
    /\ UNCHANGED <<buildVars, hostVars, estimateVars, routineVars>>
    /\ UNCHANGED <<exception, cout, cerr, exit_code, mprotect_ret, stale_access,
                   region, region_log, prot, mem>>

\* CheckAllocation that goes on to mprotect, the copy left out
CheckAllocation_SkipsCopy ==
    /\ pc = "check"
    /\ IF memory = MAP_FAILED
       THEN exception' = AllocationErrorMsg /\ pc' = "catch"
       ELSE exception' = exception /\ pc' = "mprotect"
    /\ UNCHANGED <<buildVars, hostVars, estimateVars, routineVars, regionVars>>
    /\ UNCHANGED <<cout, cerr, exit_code>>

\* CheckAllocation without the test for MAP_FAILED
CheckAllocation_Missing ==
    /\ pc = "check"
    /\ pc' = "copy"
    /\ UNCHANGED <<buildVars, hostVars, estimateVars, routineVars, regionVars>>
    /\ UNCHANGED <<exception, cout, cerr, exit_code>>

\* if (memory == MAP_FAILED) throw std::runtime_error(...)
CheckAllocation ==
    /\ pc = "check"
    /\ IF memory = MAP_FAILED
       THEN exception' = AllocationErrorMsg /\ pc' = "catch"
       ELSE exception' = exception /\ pc' = "copy"
    /\ UNCHANGED <<buildVars, hostVars, estimateVars, routineVars, regionVars>>
    /\ UNCHANGED <<cout, cerr, exit_code>>

\* Copy followed directly by the release, the seal and the call left out
Copy_SkipSeal ==
    /\ pc = "copy"
    /\ calls' = Append(calls, Call("copy", memory, Len(machine_code)))
    /\ stale_access' = (stale_access \/ region = "Released")
    /\ IF Mapped /\ "W" \in prot /\ Len(machine_code) <= Len(mem)
       THEN mem' = StdCopy(machine_code, mem) /\ pc' = "munmap"
       ELSE mem' = mem /\ pc' = "killed"
    /\ UNCHANGED <<buildVars, hostVars, estimateVars, routineVars>>
    /\ UNCHANGED <<exception, cout, cerr, exit_code, memory, region, prot,
                   region_log, mprotect_ret>>

\* std::copy(machine_code.begin(), machine_code.end(), memory)
Copy ==
    /\ pc = "copy"
    /\ calls' = Append(calls, Call("copy", memory, Len(machine_code)))
    /\ stale_access' = (stale_access \/ region = "Released")
    /\ IF Mapped /\ "W" \in prot /\ Len(machine_code) <= Len(mem)
       THEN mem' = StdCopy(machine_code, mem) /\ pc' = "mprotect"
       ELSE mem' = mem /\ pc' = "killed"
    /\ UNCHANGED <<buildVars, hostVars, estimateVars, routineVars>>
    /\ UNCHANGED <<exception, cout, cerr, exit_code, memory, region, prot,
                   region_log, mprotect_ret>>

\* mprotect(memory, required_memory_size, PROT_READ | PROT_EXEC) returns 0
MprotectOk ==
    /\ pc = "mprotect"
    /\ Mapped
    /\ calls' = Append(calls, Call("mprotect", memory, required_memory_size))
    /\ mprotect_ret' = <<0>>
    /\ Enter("ReadExecute")
    /\ prot' = {"R", "X"}
    /\ pc' = "invoke"
    /\ UNCHANGED <<buildVars, hostVars, estimateVars, routineVars>>
    /\ UNCHANGED <<exception, cout, cerr, exit_code, memory, mem, stale_access>>

\* mprotect returns -1 and leaves the protection as it was
MprotectFail ==
    /\ pc = "mprotect"
    /\ calls' = Append(calls, Call("mprotect", memory, required_memory_size))
    /\ stale_access' = (stale_access \/ region = "Released")
    /\ mprotect_ret' = <<-1>>
    /\ pc' = "cleanup"
    /\ UNCHANGED <<buildVars, hostVars, estimateVars, routineVars>>
    /\ UNCHANGED <<exception, cout, cerr, exit_code, memory, mem, region,
                   region_log, prot>>

\* SealCleanup without the throw: control falls through to the call
SealCleanup_FallThrough ==
    /\ pc = "cleanup"
    /\ Unmap
    /\ pc' = "invoke"
    /\ UNCHANGED <<buildVars, hostVars, estimateVars, routineVars>>
    /\ UNCHANGED <<exception, cout, cerr, exit_code, memory, mprotect_ret>>

\* SealCleanup without the munmap: the error is raised with the region mapped
SealCleanup_Leak ==
    /\ pc = "cleanup"
    /\ pc' = "throw"
    /\ UNCHANGED <<buildVars, hostVars, estimateVars, routineVars, regionVars>>
    /\ UNCHANGED <<exception, cout, cerr, exit_code>>

\* munmap(memory, required_memory_size) in the failure branch of mprotect
SealCleanup ==
    /\ pc = "cleanup"
    /\ Unmap
    /\ pc' = "throw"
    /\ UNCHANGED <<buildVars, hostVars, estimateVars, routineVars>>
    /\ UNCHANGED <<exception, cout, cerr, exit_code, memory, mprotect_ret>>

\* throw std::runtime_error("Failed to make memory executable")
ThrowProtection ==
    /\ pc = "throw"
    /\ exception' = ProtectionErrorMsg
    /\ pc' = "catch"
    /\ UNCHANGED <<buildVars, hostVars, estimateVars, routineVars, regionVars>>
    /\ UNCHANGED <<cout, cerr, exit_code>>

\* Invoke followed by the host's own print on every platform
Invoke_AlwaysHostPrint ==
    /\ pc = "invoke"
    /\ calls' = Append(calls, Call("invoke", memory, 0))
    /\ stale_access' = (stale_access \/ region = "Released")
    /\ IF Mapped /\ "X" \in prot
       THEN \E g \in CallerGarbage :
              LET r == CallRegion(mem, memory, arch, g)
              IN  /\ invoke_status' = [status |-> r.status,
                                       result |-> r.regs[ResultRegister(arch)]]
                  /\ fd1' = fd1 \o r.io.fd1
                  /\ syscalls' = syscalls \o r.io.syscalls
                  /\ pc' = IF r.status = "fault" THEN "killed"
                           ELSE "host_print"
       ELSE /\ invoke_status' = [status |-> "fault", result |-> 0]
            /\ pc' = "killed"
            /\ UNCHANGED <<fd1, syscalls>>
    /\ UNCHANGED <<buildVars, hostVars, estimateVars>>
    /\ UNCHANGED <<exception, cout, cerr, exit_code, memory, mem, region,
                   region_log, prot, mprotect_ret>>

\* func() / arm_func(): the call through the function pointer
Invoke ==
    /\ pc = "invoke"
    /\ calls' = Append(calls, Call("invoke", memory, 0))
    /\ stale_access' = (stale_access \/ region = "Released")
    /\ IF Mapped /\ "X" \in prot
       THEN \E g \in CallerGarbage :
              LET r == CallRegion(mem, memory, arch, g)
              IN  /\ invoke_status' = [status |-> r.status,
                                       result |-> r.regs[ResultRegister(arch)]]
                  /\ fd1' = fd1 \o r.io.fd1
                  /\ syscalls' = syscalls \o r.io.syscalls
                  /\ pc' = IF r.status = "fault" THEN "killed"
                           ELSE IF arch = "ARM64_MACOS" THEN "host_print"
                           ELSE "munmap"
       ELSE /\ invoke_status' = [status |-> "fault", result |-> 0]
            /\ pc' = "killed"
            /\ UNCHANGED <<fd1, syscalls>>
    /\ UNCHANGED <<buildVars, hostVars, estimateVars>>
    /\ UNCHANGED <<exception, cout, cerr, exit_code, memory, mem, region,
                   region_log, prot, mprotect_ret>>

\* Apple Silicon: the host prints the result and the message itself
HostPrint ==
    /\ pc = "host_print"
    /\ cout' = cout \o << Line("result", <<invoke_status.result>>),
                          Line("message", hello_name) >>
    /\ pc' = "munmap"
    /\ UNCHANGED <<buildVars, hostVars, estimateVars, routineVars, regionVars>>
    /\ UNCHANGED <<exception, cerr, exit_code>>

\* munmap(memory, required_memory_size) at the end of the try block
Munmap ==
    /\ pc = "munmap"
    /\ Unmap
    /\ pc' = "return"
    /\ UNCHANGED <<buildVars, hostVars, estimateVars, routineVars>>
    /\ UNCHANGED <<exception, cout, cerr, exit_code, memory, mprotect_ret>>

\* Catch that reports the error and falls through to return EXIT_SUCCESS
Catch_ReturnsSuccess ==
    /\ pc = "catch"
    /\ cerr' = Append(cerr, <<"Error:">> \o exception)
    /\ exit_code' = <<EXIT_SUCCESS>>
    /\ pc' = "done"
    /\ UNCHANGED <<buildVars, hostVars, estimateVars, routineVars, regionVars>>
    /\ UNCHANGED <<exception, cout>>

\* catch (const std::exception& e): report and return EXIT_FAILURE
Catch ==
    /\ pc = "catch"
    /\ cerr' = Append(cerr, <<"Error:">> \o exception)
    /\ exit_code' = <<EXIT_FAILURE>>
    /\ pc' = "done"
    /\ UNCHANGED <<buildVars, hostVars, estimateVars, routineVars, regionVars>>
    /\ UNCHANGED <<exception, cout>>

\* return EXIT_SUCCESS
ReturnSuccess ==
    /\ pc = "return"
    /\ exit_code' = <<EXIT_SUCCESS>>
    /\ pc' = "done"
    /\ UNCHANGED <<buildVars, hostVars, estimateVars, routineVars, regionVars>>
    /\ UNCHANGED <<exception, cout, cerr>>

Next ==
    \/ GetName
    \/ BuildTemplate
    \/ PatchLength
    \/ PushPayload
    \/ ShowMachineCode
    \/ CallEstimate
    \/ EstimateLoop
    \/ EstimateReturn
    \/ MmapOk
    \/ MmapFail
    \/ CheckAllocation
    \/ Copy
    \/ MprotectOk
    \/ MprotectFail
    \/ SealCleanup
    \/ ThrowProtection
    \/ Invoke
    \/ HostPrint
    \/ Munmap
    \/ Catch
    \/ ReturnSuccess

Spec == Init /\ [][Next]_vars

-----------------------------------------------------------------------------
(* estimate_memory_size on its own, for every size a vector can have *)

InitEst ==
    /\ pc = "estimate"
    /\ arch = "X86_64_LINUX"
    /\ page_size \in PageSizes
    /\ machine_code_size \in 0 .. MaxVectorSize
    /\ message_len = 0
    /\ name = <<>>
    /\ hello_name = <<>>
    /\ machine_code = <<>>
    /\ factor = 1
    /\ required_memory_size = 0
    /\ memory = 0
    /\ region = "Unallocated"
    /\ prot = {}
    /\ mem = <<>>
    /\ exception = <<>>
    /\ cout = <<>>
    /\ cerr = <<>>
    /\ fd1 = <<>>
    /\ syscalls = <<>>
    /\ exit_code = <<>>
    /\ calls = <<>>
    /\ region_log = <<"Unallocated">>
    /\ mprotect_ret = <<>>
    /\ invoke_status = [status |-> "none", result |-> 0]
    /\ stale_access = FALSE

NextEst ==
    \/ EstimateLoop
    \/ EstimateReturn

SpecEst == InitEst /\ [][NextEst]_vars

-----------------------------------------------------------------------------
(* estimate_memory_size on its own, for arguments of the whole word *)

\* every power of two a word can hold, as the value of sysconf(_SC_PAGE_SIZE)
WordPageSizes == {2 ^ k : k \in 0 .. (WordBits - 1)}

\* the arguments at both ends of the word and on either side of p and of the
\* largest multiple of p in the word
WordInputs(p) ==
    {0, 1, p, p + 1, WordModulus - p - 1, WordModulus - p,
     WordModulus - p + 1, WordModulus - 1} \cap (0 .. (WordModulus - 1))

InitWord ==
    /\ pc = "estimate"
    /\ arch = "X86_64_LINUX"
    /\ page_size \in WordPageSizes
    /\ machine_code_size \in WordInputs(page_size)
    /\ message_len = 0
    /\ name = <<>>
    /\ hello_name = <<>>
    /\ machine_code = <<>>
    /\ factor = 1
    /\ required_memory_size = 0
    /\ memory = 0
    /\ region = "Unallocated"
    /\ prot = {}
    /\ mem = <<>>
    /\ exception = <<>>
    /\ cout = <<>>
    /\ cerr = <<>>
    /\ fd1 = <<>>
    /\ syscalls = <<>>
    /\ exit_code = <<>>
    /\ calls = <<>>
    /\ region_log = <<"Unallocated">>
    /\ mprotect_ret = <<>>
    /\ invoke_status = [status |-> "none", result |-> 0]
    /\ stale_access = FALSE

NextWord ==
    \/ EstimateLoop
    \/ EstimateReturn

\* the processor keeps executing the loop: no iteration is postponed for ever
SpecWord == InitWord /\ [][NextWord]_vars /\ WF_vars(NextWord)

-----------------------------------------------------------------------------
(* append_message_size on its own, for message lengths of every magnitude *)

\* longest of the short messages
MaxSmallSize == 20

\* message lengths around the limits of the one-, two- and three-byte fields
PatchSizes ==
    (0 .. MaxSmallSize) \cup
    {255, 256, 257, 2047, 2048, 2049, 4095, 65535, 65536, 65537, 70000,
     16777215, 16777216, 16779264, 2147483647}

InitPatch ==
    /\ pc = "template"
    /\ arch \in Archs
    /\ page_size = 2 ^ MinPageBits
    /\ message_len \in PatchSizes
    /\ InitCommon

\* append_message_size for a message of message_len bytes
PatchField ==
    /\ pc = "patch"
    /\ machine_code' = PatchForSize(machine_code, message_len, arch)
    /\ pc' = "payload"
    /\ UNCHANGED <<name, hello_name, message_len, exception, cout, cerr,
                   exit_code>>
    /\ UNCHANGED <<hostVars, estimateVars, regionVars, routineVars>>

NextPatch ==
    \/ BuildTemplate
    \/ PatchField

SpecPatch == InitPatch /\ [][NextPatch]_vars

-----------------------------------------------------------------------------
(* main() of src/unnamed/part_001: the region is owned by a unique_ptr *)

InitRaii ==
    /\ pc = "start"
    /\ arch \in X86Archs
    /\ page_size \in HostPageSizes
    /\ message_len = 0
    /\ InitCommon

\* the initialisation of machine_code
RaiiBuildTemplate ==
    /\ pc = "template"
    /\ machine_code' = RaiiTemplate(arch)
    /\ pc' = "patch"
    /\ UNCHANGED <<name, hello_name, message_len, exception, cout, cerr,
                   exit_code>>
    /\ UNCHANGED <<hostVars, estimateVars, regionVars, routineVars>>

\* create_executable_memory: mmap with PROT_READ | PROT_WRITE | PROT_EXEC
RaiiCreateOk ==
    /\ pc = "mmap"
    /\ required_memory_size > 0
    /\ \E b \in 1 .. MaxBases :
        /\ memory' = b * page_size
        /\ calls' = Append(calls, Call("mmap", b * page_size,
                                       required_memory_size))
    /\ Enter("ReadWriteExecute")
    /\ prot' = {"R", "W", "X"}
    /\ mem' = [i \in 1 .. required_memory_size |-> 0]
    /\ pc' = "raii_copy"
    /\ UNCHANGED <<buildVars, hostVars, estimateVars, routineVars>>
    /\ UNCHANGED <<exception, cout, cerr, exit_code, mprotect_ret, stale_access>>

\* create_executable_memory: mmap returns MAP_FAILED and the factory throws
RaiiCreateFail ==
    /\ pc = "mmap"
    /\ calls' = Append(calls, Call("mmap", MAP_FAILED, required_memory_size))
    /\ exception' = RaiiAllocationErrorMsg
    /\ pc' = "catch"
    /\ UNCHANGED <<buildVars, hostVars, estimateVars, routineVars>>
    /\ UNCHANGED <<cout, cerr, exit_code, mprotect_ret, stale_access,
                   memory, region, region_log, prot, mem>>

\* std::copy(machine_code.begin(), machine_code.end(), executable_memory.get())
RaiiCopy ==
    /\ pc = "raii_copy"
    /\ calls' = Append(calls, Call("copy", memory, Len(machine_code)))
    /\ IF Mapped /\ "W" \in prot /\ Len(machine_code) <= Len(mem)
       THEN mem' = StdCopy(machine_code, mem) /\ pc' = "raii_invoke"
       ELSE mem' = mem /\ pc' = "killed"
    /\ UNCHANGED <<buildVars, hostVars, estimateVars, routineVars>>
    /\ UNCHANGED <<exception, cout, cerr, exit_code, memory, region, prot,
                   region_log, mprotect_ret, stale_access>>

\* func(): the call through the function pointer
RaiiInvoke ==
    /\ pc = "raii_invoke"
    /\ calls' = Append(calls, Call("invoke", memory, 0))
    /\ IF Mapped /\ "X" \in prot
       THEN \E g \in CallerGarbage :
              LET r == CallRegion(mem, memory, arch, g)
              IN  /\ invoke_status' = [status |-> r.status,
                                       result |-> r.regs[ResultRegister(arch)]]
                  /\ fd1' = fd1 \o r.io.fd1
                  /\ syscalls' = syscalls \o r.io.syscalls
                  /\ pc' = IF r.status = "fault" THEN "killed" ELSE "raii_exit"
       ELSE /\ invoke_status' = [status |-> "fault", result |-> 0]
            /\ pc' = "killed"
            /\ UNCHANGED <<fd1, syscalls>>
    /\ UNCHANGED <<buildVars, hostVars, estimateVars>>
    /\ UNCHANGED <<exception, cout, cerr, exit_code, memory, mem, region,
                   region_log, prot, mprotect_ret, stale_access>>

\* end of the try block: MmapDeleter::operator() unmaps the region
RaiiScopeExit ==
    /\ pc = "raii_exit"
    /\ IF memory # 0 /\ memory # MAP_FAILED
       THEN Unmap
       ELSE UNCHANGED <<calls, stale_access, region, region_log, prot, mem>>
    /\ pc' = "return"
    /\ UNCHANGED <<buildVars, hostVars, estimateVars, routineVars>>
    /\ UNCHANGED <<exception, cout, cerr, exit_code, memory, mprotect_ret>>

NextRaii ==
    \/ GetName
    \/ RaiiBuildTemplate
    \/ PatchLength
    \/ PushPayload
    \/ ShowMachineCode
    \/ CallEstimate
    \/ EstimateLoop
    \/ EstimateReturn
    \/ RaiiCreateOk
    \/ RaiiCreateFail
    \/ RaiiCopy
    \/ RaiiInvoke
    \/ RaiiScopeExit
    \/ Catch
    \/ ReturnSuccess

SpecRaii == InitRaii /\ [][NextRaii]_vars

-----------------------------------------------------------------------------
(* Properties of the lifecycle *)

IsPrefix(s, t) == Len(s) <= Len(t) /\ SubSeq(t, 1, Len(s)) = s
Range(s) == {s[i] : i \in DOMAIN s}

LifecyclePath == <<"Unallocated", "ReadWrite", "ReadExecute", "Released">>
SealFailurePath == <<"Unallocated", "ReadWrite", "Released">>

AllocationSucceeded == memory # 0 /\ memory # MAP_FAILED
AllocationFailed == memory = MAP_FAILED
SealFailed == mprotect_ret = <<-1>>
SealSucceeded == mprotect_ret = <<0>>

\* C1 as stated: in every execution the region only moves along
\* Unallocated -> ReadWrite -> ReadExecute -> Released, never skipping a state,
\* Released being terminal and each transition taken at most once.
C1_Original == IsPrefix(region_log, LifecyclePath)

\* C1 amended: the region moves along Unallocated -> ReadWrite -> ReadExecute
\* -> Released, except that a failed seal takes it from ReadWrite directly to
\* Released; Released is terminal and each transition is taken at most once.
C1_RegionPath ==
    \/ IsPrefix(region_log, LifecyclePath)
    \/ SealFailed /\ region_log = SealFailurePath

C1_Witness ==
    /\ pc = "done"
    /\ SealFailed
    /\ region_log = SealFailurePath

\* C2: on every path on which allocation succeeded munmap is called exactly
\* once, it is the last thing done with the region, and the region is never
\* read, written or invoked after it.
C2_ReleasedExactlyOnce ==
    /\ Count("munmap") <= 1
    /\ ~stale_access
    /\ \A i \in DOMAIN calls : calls[i].op = "munmap" => i = Len(calls)
    /\ region = "Released" => pc \in {"throw", "catch", "return", "done"}
    /\ (pc = "done" /\ AllocationSucceeded) =>
            Count("munmap") = 1 /\ region = "Released"

C2_Witness ==
    /\ pc = "done"
    /\ SealSucceeded
    /\ Count("munmap") = 1
    /\ Count("invoke") = 1

\* C3: a region returned by allocate starts readable and writable but not
\* executable, and in no reachable state is it writable and executable at once.
C3_WriteXorExecute ==
    /\ ~({"W", "X"} \subseteq prot)
    /\ Len(region_log) >= 2 => region_log[2] = "ReadWrite"
    /\ region = "ReadWrite" => prot = {"R", "W"}
    /\ region = "ReadExecute" => prot = {"R", "X"}

\* C4: when mprotect fails the region is unmapped before the error is raised,
\* the region is never invoked, and the run ends with EXIT_FAILURE and
\* "Failed to make memory executable" on the error stream.
C4_SealFailure ==
    /\ exception = ProtectionErrorMsg =>
            region = "Released" /\ Count("munmap") = 1
    /\ SealFailed => Count("invoke") = 0 /\ invoke_status.status = "none"
    /\ (SealFailed /\ pc = "done") =>
            /\ exit_code = <<EXIT_FAILURE>>
            /\ cerr = << <<"Error:">> \o ProtectionErrorMsg >>

C4_Witness ==
    /\ pc = "done"
    /\ SealFailed
    /\ exception = ProtectionErrorMsg
    /\ Len(cerr) = 1

\* C5: when mmap returns MAP_FAILED nothing is copied, sealed, invoked or
\* unmapped, nothing is left mapped, and the run ends with EXIT_FAILURE and an
\* error message that mentions allocation.
C5_AllocationFailure ==
    AllocationFailed =>
        /\ \A i \in DOMAIN calls : calls[i].op = "mmap"
        /\ ~Mapped
        /\ mem = <<>>
        /\ pc \in {"check", "catch", "done"}
        /\ pc = "done" =>
            /\ exit_code = <<EXIT_FAILURE>>
            /\ Len(cerr) = 1
            /\ "allocate" \in Range(cerr[1])

C5_Witness ==
    /\ pc = "done"
    /\ AllocationFailed
    /\ exit_code = <<EXIT_FAILURE>>

\* C6: the run exits with EXIT_SUCCESS exactly when allocate and seal succeeded
\* and invoke returned; after either error no lifecycle operation follows, the
\* two errors report different messages naming the failed step, and the exit
\* code is EXIT_FAILURE.
C6_ExitState ==
    /\ pc = "done" =>
        /\ exit_code \in {<<EXIT_SUCCESS>>, <<EXIT_FAILURE>>}
        /\ exit_code = <<EXIT_SUCCESS>> <=>
              /\ AllocationSucceeded
              /\ SealSucceeded
              /\ invoke_status.status = "returned"
        /\ exit_code = <<EXIT_FAILURE>> =>
              /\ AllocationFailed \/ SealFailed
              /\ AllocationFailed =>
                    /\ cerr = << <<"Error:">> \o AllocationErrorMsg >>
                    /\ "allocate" \in Range(cerr[1])
                    /\ "executable" \notin Range(cerr[1])
              /\ SealFailed =>
                    /\ cerr = << <<"Error:">> \o ProtectionErrorMsg >>
                    /\ "executable" \in Range(cerr[1])
                    /\ "allocate" \notin Range(cerr[1])
    /\ exception # <<>> =>
        /\ pc \in {"catch", "done"}
        /\ Count("mmap") = 1
        /\ Count("mprotect") <= 1
        /\ Count("invoke") = 0

C6_ExitContract ==
    /\ []C6_ExitState
    /\ [][exception # <<>> => calls' = calls]_vars

C6_Witness ==
    /\ pc = "done"
    /\ exit_code = <<EXIT_SUCCESS>>
    /\ invoke_status.status = "returned"
    /\ exception = <<>>

-----------------------------------------------------------------------------
(* Properties of the page rounding and of the generated bytes *)

\* the smallest positive multiple of p that is >= n
SmallestMultiple(n, p) ==
    LET multiples == {k * p : k \in 1 .. (n \div p + 1)}
    IN  CHOOSE r \in multiples :
            r >= n /\ \A q \in multiples : q >= n => r <= q

EstimateReturned == pc = "mmap"

\* C7: for every byte count n and every power-of-two page size p,
\* estimate_memory_size returns the smallest positive multiple of p that is
\* >= n (the loop never passes it); round_up(0,p) = p, round_up(p,p) = p and
\* round_up(p+1,p) = 2p.
C7_RoundUp ==
    /\ pc = "estimate" => factor = 1 \/ (factor - 1) * page_size < machine_code_size
    /\ EstimateReturned =>
        /\ required_memory_size = SmallestMultiple(machine_code_size, page_size)
        /\ required_memory_size > 0
        /\ required_memory_size % page_size = 0
        /\ machine_code_size = 0 => required_memory_size = page_size
        /\ machine_code_size = page_size => required_memory_size = page_size
        /\ machine_code_size = page_size + 1 =>
                required_memory_size = 2 * page_size

C7_Witness ==
    /\ EstimateReturned
    /\ machine_code_size = page_size + 1
    /\ required_memory_size = 2 * page_size
    /\ factor = 2

\* machine_code is complete: length patched and payload appended
Built == pc \notin {"start", "template", "patch", "payload"}

\* the number of bytes in front of the appended message
InstructionPrefixLen == Len(machine_code) - Len(hello_name)

\* the bytes at zero-based offsets from .. to
Bytes(code, from, to) == SubSeq(code, from + 1, to + 1)

HelloWorldCase == arch = "X86_64_LINUX" /\ name = World /\ Built

\* C8 as stated: on x86-64 Linux with "Hello, World!\n" the instruction prefix
\* is 30 bytes long, the length field is 0x0E,0,0,0 at the patch offset, the 14
\* payload bytes follow immediately and the total length is 44.
C8_Original ==
    HelloWorldCase =>
        /\ InstructionPrefixLen = 30
        /\ Bytes(machine_code, 24, 27) = <<14, 0, 0, 0>>
        /\ Len(machine_code) = 44
        /\ Bytes(machine_code, 30, 43) = hello_name

\* C8 amended: on x86-64 Linux with "Hello, World!\n" the instruction prefix is
\* 31 bytes long, the length field is 0x0E,0,0,0 at offsets 24..27, the 14
\* payload bytes follow immediately and the total length is 45.
C8_GoldenBytes ==
    HelloWorldCase =>
        /\ Len(hello_name) = 14
        /\ InstructionPrefixLen = 31
        /\ Bytes(machine_code, 24, 27) = <<14, 0, 0, 0>>
        /\ Len(machine_code) = 45
        /\ Bytes(machine_code, 31, 44) = hello_name
        /\ machine_code =
            << 72, 199, 192, 1, 0, 0, 0, 72, 199, 199, 1, 0, 0, 0,
               72, 141, 53, 10, 0, 0, 0, 72, 199, 194, 14, 0, 0, 0,
               15, 5, 195,
               72, 101, 108, 108, 111, 44, 32, 87, 111, 114, 108, 100, 33, 10 >>

C8_Witness ==
    /\ HelloWorldCase
    /\ pc = "done"
    /\ Len(machine_code) = 45

\* the value of a little-endian 32-bit field
LittleEndian32(b) == b[1] + 256 * b[2] + 65536 * b[3] + 16777216 * b[4]

\* C9: the message is "Hello, " + name + "!\n" of length len(name) + 9, and on
\* both x86-64 profiles bytes 24..27 of the buffer are the little-endian 32-bit
\* encoding of that length ("Ada": length 12, bytes 0x0C,0,0,0).
C9_LengthField ==
    /\ pc # "start" =>
        /\ hello_name = HelloPrefix \o name \o HelloSuffix
        /\ Len(hello_name) = Len(name) + 9
    /\ (arch \in X86Archs /\ pc \notin {"start", "template", "patch"}) =>
        /\ \A i \in 24 .. 27 : machine_code[i + 1] \in 0 .. 255
        /\ LittleEndian32(Bytes(machine_code, 24, 27)) = Len(hello_name)
        /\ name = Ada =>
            /\ Len(hello_name) = 12
            /\ Bytes(machine_code, 24, 27) = <<12, 0, 0, 0>>

C9_Witness ==
    /\ arch \in X86Archs
    /\ Built
    /\ Len(hello_name) >= 256
    /\ Bytes(machine_code, 24, 27) = <<Len(hello_name) - 256, 1, 0, 0>>

Invoked == invoke_status.status # "none"

\* C10: on the x86-64 profiles the invoked routine issues exactly one system
\* call, write(1, start of the appended payload, message length), so the bytes
\* it puts on standard output are the message exactly once, and the run ends
\* with EXIT_SUCCESS.
C10_RoutineOutput ==
    (arch \in X86Archs /\ Invoked) =>
        /\ invoke_status.status = "returned"
        /\ syscalls = << [nr    |-> WriteSyscallNumber(arch),
                          fd    |-> STDOUT_FILENO,
                          addr  |-> memory + InstructionPrefixLen,
                          count |-> Len(hello_name)] >>
        /\ Bytes(machine_code, InstructionPrefixLen, Len(machine_code) - 1)
                = hello_name
        /\ fd1 = hello_name
        /\ \A i \in DOMAIN cout : cout[i].kind # "message"
        /\ pc = "done" => exit_code = <<EXIT_SUCCESS>>

C10_Witness ==
    /\ arch \in X86Archs
    /\ pc = "done"
    /\ exit_code = <<EXIT_SUCCESS>>
    /\ fd1 = hello_name
    /\ Len(syscalls) = 1

-----------------------------------------------------------------------------
(* Properties of the buffer, of the patch and of the order of operations *)

Restricted == arch = "ARM64_MACOS"

\* the length has been patched into machine_code
Patched == pc \notin {"start", "template", "patch"}

\* C11: on every non-restricted profile append_payload keeps the bytes already
\* in the buffer and appends the message bytes in order, so the buffer is the
\* patched template followed by the message and has their lengths' sum as
\* length; on the restricted profile nothing is appended.
C11_Payload ==
    Built =>
        LET t == Template(arch)
            patched == append_message_size(t, hello_name, arch)
        IN  IF Restricted
            THEN /\ Len(machine_code) = Len(t)
                 /\ machine_code = patched
            ELSE /\ Len(machine_code) = Len(t) + Len(hello_name)
                 /\ SubSeq(machine_code, 1, Len(t)) = patched
                 /\ \A i \in 1 .. Len(hello_name) :
                        machine_code[Len(t) + i] = hello_name[i]

C11_Witness ==
    /\ Built
    /\ arch = "ARM64_LINUX"
    /\ Len(hello_name) > 255
    /\ Len(machine_code) = 24 + Len(hello_name)

\* C12: on the restricted profile the buffer is, for every message, exactly
\* the 8-byte template "mov x0, #0; ret": the patch changes no byte and no
\* payload is appended.
C12_RestrictedBuffer ==
    (Restricted /\ pc \notin {"start", "template"}) =>
        machine_code = <<0, 0, 128, 210, 192, 3, 95, 214>>

C12_Witness ==
    /\ Restricted
    /\ pc = "done"
    /\ name = World
    /\ Len(machine_code) = 8

Sized ==
    pc \notin {"start", "template", "patch", "payload", "show", "size",
               "estimate"}

\* C13: whenever populate runs the number of bytes copied is at most the
\* region size, and the region size is a positive multiple of the page size,
\* the smallest one that is >= the length of the buffer.
C13_RegionSize ==
    /\ Sized =>
        /\ required_memory_size > 0
        /\ required_memory_size % page_size = 0
        /\ required_memory_size
                = SmallestMultiple(Len(machine_code), page_size)
    /\ Mapped => Len(mem) = required_memory_size
    /\ \A i \in DOMAIN calls :
        calls[i].op = "copy" =>
            /\ calls[i].size = Len(machine_code)
            /\ calls[i].size <= required_memory_size
    /\ pc # "killed"

C13_Witness ==
    /\ Count("copy") = 1
    /\ pc = "mprotect"
    /\ required_memory_size > page_size
    /\ Len(machine_code) < required_memory_size

\* C14: once the length is patched and the payload appended the buffer is
\* never modified again, and at the moment of the call the first
\* machine_code.size() bytes of the region equal the buffer byte for byte.
C14_BufferFrozen ==
    /\ [](pc = "invoke" =>
            /\ Mapped
            /\ Len(machine_code) <= Len(mem)
            /\ SubSeq(mem, 1, Len(machine_code)) = machine_code)
    /\ [][Built => machine_code' = machine_code]_vars

C14_Witness ==
    /\ pc = "invoke"
    /\ Len(machine_code) > 31
    /\ SubSeq(mem, 1, Len(machine_code)) = machine_code

\* the 16-bit immediate (bits 5..20) of the ARM64 instruction at offset off
ArmImm16(code, off) ==
    (code[off + 3] % 32) * 2048 + code[off + 2] * 8 + code[off + 1] \div 32

\* the destination register (bits 0..4) of the ARM64 instruction at offset off
ArmRd(code, off) == code[off + 1] % 32

\* C15: on ARM64 Linux, for every message length <= 0x7FF, the patched
\* instruction at offset 8 still loads x2 (the register bits of the template),
\* its immediate is the message length, and no bit outside the immediate has
\* changed.
C15_LengthRegister ==
    (arch = "ARM64_LINUX" /\ Patched /\ message_len <= 2047) =>
        /\ ArmRd(machine_code, 8) = ArmRd(TemplateArm64Linux, 8)
        /\ ArmRd(machine_code, 8) = 2
        /\ ArmImm16(machine_code, 8) = message_len
        /\ machine_code[11] = TemplateArm64Linux[11]
        /\ machine_code[12] = TemplateArm64Linux[12]

\* the buffer offset the address instruction of the routine computes
SourceOffset(code, a) ==
    IF a \in X86Archs
    THEN 14 + 7 + Imm32(code, 0, 17)
    ELSE 4 + AdrImm(code[5], code[6], code[7], code[8])

\* C16: on every non-restricted profile the address instruction of the
\* template computes the buffer offset at which the first message byte is
\* appended, the end of the instruction template.
C16_SourceAddress ==
    (~Restricted /\ Built) =>
        /\ SourceOffset(machine_code, arch) = Len(Template(arch))
        /\ SourceOffset(machine_code, arch) = InstructionPrefixLen

\* the value of a little-endian 16-bit field
LittleEndian16(b) == b[1] + 256 * b[2]

\* C17 as stated: on ARM64 Linux, for every message length, bytes 8..9 read
\* as a little-endian 16-bit value hold (length & 0xFFFF) << 5.
C17_Original ==
    (arch = "ARM64_LINUX" /\ Patched) =>
        LittleEndian16(Bytes(machine_code, 8, 9)) = (message_len % 65536) * 32

\* C17 amended: on ARM64 Linux, for every message length, bytes 8..9 hold the
\* low 16 bits of (length & 0xFFFF) << 5, which is (length & 0xFFFF) << 5
\* itself whenever length & 0xFFFF is at most 0x7FF.
C17_ShiftedField ==
    (arch = "ARM64_LINUX" /\ Patched) =>
        /\ LittleEndian16(Bytes(machine_code, 8, 9))
                = ((message_len % 65536) * 32) % 65536
        /\ message_len % 65536 <= 2047 =>
                LittleEndian16(Bytes(machine_code, 8, 9))
                    = (message_len % 65536) * 32

C17_Witness ==
    /\ arch = "ARM64_LINUX"
    /\ Patched
    /\ message_len = 2049
    /\ Bytes(machine_code, 8, 9) = <<32, 0>>

\* the zero-based offsets of the length field
FieldOffsets(a) ==
    CASE a \in X86Archs     -> 24 .. 27
      [] a = "ARM64_LINUX"  -> 8 .. 9
      [] a = "ARM64_MACOS"  -> {}

\* C18: the patch never changes the length of the buffer and changes only the
\* bytes of the length field (24..27 on x86-64, holding the length in
\* little-endian order; 8..9 on ARM64 Linux); every other byte is the
\* template's, also for lengths that do not fit the field, and no error is
\* raised.
C18_PatchFrame ==
    (Patched /\ pc = "payload") =>
        /\ Len(machine_code) = Len(Template(arch))
        /\ \A i \in 0 .. (Len(machine_code) - 1) :
            /\ machine_code[i + 1] \in 0 .. 255
            /\ i \notin FieldOffsets(arch) =>
                    machine_code[i + 1] = Template(arch)[i + 1]
        /\ arch \in X86Archs =>
            LittleEndian32(Bytes(machine_code, 24, 27)) = message_len
        /\ exception = <<>>

C18_Witness ==
    /\ pc = "payload"
    /\ arch = "ARM64_LINUX"
    /\ message_len = 70000
    /\ machine_code[11] = 128

\* the primitives called so far, in order
Ops == [i \in DOMAIN calls |-> calls[i].op]

\* the call that a step adds to the log, if it adds one
NewCall(op) == Len(calls') = Len(calls) + 1 /\ calls'[Len(calls')].op = op

C19_OrderState ==
    \/ IsPrefix(Ops, <<"mmap", "copy", "mprotect", "invoke", "munmap">>)
    \/ SealFailed /\ Ops = <<"mmap", "copy", "mprotect", "munmap">>

\* C19: allocation, population, protection change and invocation happen
\* strictly in that order: bytes are written into the region only while it is
\* ReadWrite and not yet sealed, and the region is called only while it is
\* ReadExecute and holds the whole buffer.
C19_StrictOrder ==
    /\ []C19_OrderState
    /\ [][NewCall("copy") =>
            /\ region = "ReadWrite"
            /\ prot = {"R", "W"}
            /\ mprotect_ret = <<>>]_vars
    /\ [][(mem' # mem /\ region' = region) => region = "ReadWrite"]_vars
    /\ [][NewCall("invoke") =>
            /\ region = "ReadExecute"
            /\ prot = {"R", "X"}
            /\ Count("copy") = 1
            /\ SubSeq(mem, 1, Len(machine_code)) = machine_code]_vars

C19_Witness ==
    /\ pc = "done"
    /\ Ops = <<"mmap", "copy", "mprotect", "invoke", "munmap">>

\* the lines of std::cout that carry the message
MessageLines == {i \in DOMAIN cout : cout[i].kind = "message"}

\* C20: on the restricted profile the host prints the message itself, once and
\* only after the call has returned; on every other profile the host never
\* prints it, so in no run do the host and the routine both print it.
C20_WhoPrints ==
    /\ ~Restricted => MessageLines = {}
    /\ MessageLines # {} =>
        /\ Restricted
        /\ invoke_status.status = "returned"
        /\ Cardinality(MessageLines) = 1
        /\ \A i \in MessageLines : cout[i].data = hello_name
    /\ (Restricted /\ pc = "done" /\ exit_code = <<EXIT_SUCCESS>>) =>
        Cardinality(MessageLines) = 1
    /\ (Restricted /\ pc \in {"invoke", "host_print"}) => MessageLines = {}
    /\ ~(MessageLines # {} /\ fd1 # <<>>)

C20_Witness ==
    /\ Restricted
    /\ pc = "done"
    /\ exit_code = <<EXIT_SUCCESS>>
    /\ MessageLines # {}
    /\ fd1 = <<>>

-----------------------------------------------------------------------------
(* estimate_memory_size for every argument of the word *)

\* C21: estimate_memory_size returns for every argument n of the word and
\* every power-of-two page size, the arguments above the largest page multiple
\* of the word included.
C21_Terminates == <>EstimateReturned

-----------------------------------------------------------------------------
(* The arguments of mprotect and munmap *)

\* the calls that take the region by address and size
RegionCalls == {i \in DOMAIN calls : calls[i].op \in {"mprotect", "munmap"}}

\* C22: every mprotect and every munmap, on the success path and on the
\* seal-failure path, is given the base address mmap returned and the size
\* mmap was given; mmap is called at most once, the mapping has that size
\* while it exists, and munmap leaves none of it mapped.
C22_SameMapping ==
    /\ Count("mmap") <= 1
    /\ \A i \in RegionCalls :
        /\ calls[1].op = "mmap"
        /\ calls[1].addr # MAP_FAILED
        /\ calls[i].addr = calls[1].addr
        /\ calls[i].size = calls[1].size
    /\ Mapped =>
        /\ calls[1] = Call("mmap", memory, required_memory_size)
        /\ Len(mem) = calls[1].size
    /\ Count("munmap") > 0 => (region = "Released" /\ mem = <<>>)

C22_Witness ==
    /\ pc = "done"
    /\ Count("mprotect") = 1
    /\ Count("munmap") = 1
    /\ mprotect_ret = <<-1>>
    /\ memory = MaxBases * page_size
    /\ required_memory_size > page_size
    /\ Len(machine_code) < required_memory_size

=============================================================================
